---- MODULE Spec2Model ----
(***************************************************************************)
(* Model of the GymSage photo analyzer (src/analyzer/main.py): the two     *)
(* analysis endpoints, the static endpoints and the pure helpers           *)
(* calculate_distance, calculate_body_measurements and extract_keypoints.  *)
(*                                                                         *)
(* The service keeps no state between requests, so a state of the model is *)
(* one call: the operation, its input, the behaviour of the outside world  *)
(* during the call (what the URL serves, what the pose model answers), the *)
(* output, and the images handed to the pose model.                        *)
(*                                                                         *)
(* Representation of Python values:                                        *)
(*   None / Optional      <<>> for None, <<v>> for a value v               *)
(*   str                  TLA+ strings                                     *)
(*   float (landmarks)    exact rationals [num, den]                       *)
(*   float (np.sqrt)      the real sqrt(n), held as floor(sqrt n) and the  *)
(*                        remainder n - floor^2                            *)
(*   float (a / b)        sqrt(num/den) in lowest terms, or IEEE inf / nan *)
(*   dict                 a function whose domain is the set of keys       *)
(***************************************************************************)
EXTENDS Integers, Sequences, FiniteSets, TLC

VARIABLES op, input, world, output, poseLog

vars == <<op, input, world, output, poseLog>>

(***************************************************************************)
(* Bounds of the model.                                                    *)
(***************************************************************************)
\* pixel coordinates given to calculate_distance range over -1..GridMax
GridMax == 4
\* the pose model returns at most this many landmarks (MediaPipe: 33)
MaxLandmarks == 33

(***************************************************************************)
(* Python helpers.                                                         *)
(***************************************************************************)
None == <<>>
Some(v) == <<v>>
IsNone(o) == o = <<>>
Get(o) == o[1]

\* truthiness of an Optional[str]: None and "" are falsy
Truthy(o) == o # <<>> /\ o[1] # ""

\* str.startswith
startswith(s, prefix) ==
    /\ Len(s) >= Len(prefix)
    /\ SubSeq(s, 1, Len(prefix)) = prefix

\* the Python test `sub in s` on strings
Contains(s, sub) ==
    \E i \in 1..(Len(s) - Len(sub) + 1) : SubSeq(s, i, i + Len(sub) - 1) = sub

Abs(n) == IF n < 0 THEN -n ELSE n

RECURSIVE GCD(_, _)
GCD(a, b) == IF b = 0 THEN a ELSE GCD(b, a % b)

Rat(n, d) == [num |-> n, den |-> d]

\* int(r * k) for a float r (an exact rational) and an int k: truncation
\* towards zero
IntOfProduct(r, k) ==
    LET n == r.num * k
    IN  IF n >= 0 THEN n \div r.den ELSE -((-n) \div r.den)

\* a + b on rationals, in lowest terms
RatAdd(a, b) ==
    LET n == a.num * b.den + b.num * a.den
        d == a.den * b.den
        g == GCD(Abs(n), d)
    IN  Rat(n \div g, d \div g)

\* s[lo] + ... + s[hi], summed by halves
RECURSIVE RatSumRange(_, _, _)
RatSumRange(s, lo, hi) ==
    IF lo > hi THEN Rat(0, 1)
    ELSE IF lo = hi THEN s[lo]
    ELSE LET mid == (lo + hi) \div 2
         IN  RatAdd(RatSumRange(s, lo, mid), RatSumRange(s, mid + 1, hi))

RatSum(s) == RatSumRange(s, 1, Len(s))

\* np.mean of a list of floats; the mean of an empty list is nan
np_mean(s) ==
    IF s = <<>> THEN [kind |-> "nan"]
    ELSE LET t == RatSum(s)
             g == GCD(Abs(t.num), t.den * Len(s))
         IN  [kind |-> "rat", num |-> t.num \div g, den |-> (t.den * Len(s)) \div g]

\* floor of the square root of a natural number
ISqrt(n) == CHOOSE r \in 0..n : r * r <= n /\ n < (r + 1) * (r + 1)

\* np.sqrt of a non-negative int: the real sqrt(n) = sqrt(floor^2 + rem)
np_sqrt(n) == [kind |-> "sqrt", floor |-> ISqrt(n), rem |-> n - ISqrt(n) * ISqrt(n)]

\* the square of an np.sqrt value
Radicand(v) == v.floor * v.floor + v.rem

\* a / b on two np.float64 square roots: numpy does not raise on a zero
\* divisor, it answers inf (nan for 0/0)
np_divide(a, b) ==
    LET ra == Radicand(a)
        rb == Radicand(b)
        g  == GCD(ra, rb)
    IN  IF rb = 0
        THEN (IF ra = 0 THEN [kind |-> "nan"] ELSE [kind |-> "inf"])
        ELSE [kind |-> "sqrt_ratio", num |-> ra \div g, den |-> rb \div g]

\* d[k] = v on a dict
Put(d, k, v) == [x \in (DOMAIN d) \cup {k} |-> IF x = k THEN v ELSE d[x]]

(***************************************************************************)
(* calculate_distance                                                      *)
(***************************************************************************)
calculate_distance_manhattan(point1, point2) ==
    np_sqrt((Abs(point1[1] - point2[1]) + Abs(point1[2] - point2[2]))
            * (Abs(point1[1] - point2[1]) + Abs(point1[2] - point2[2])))

calculate_distance(point1, point2) ==
    np_sqrt((point1[1] - point2[1]) * (point1[1] - point2[1])
            + (point1[2] - point2[2]) * (point1[2] - point2[2]))

(***************************************************************************)
(* MediaPipe pose landmark indices                                         *)
(***************************************************************************)
LEFT_SHOULDER == 11
RIGHT_SHOULDER == 12
LEFT_HIP == 23
RIGHT_HIP == 24
LEFT_ELBOW == 13
RIGHT_ELBOW == 14
LEFT_WRIST == 15
RIGHT_WRIST == 16
LEFT_KNEE == 25
RIGHT_KNEE == 26
LEFT_ANKLE == 27
RIGHT_ANKLE == 28

(***************************************************************************)
(* calculate_body_measurements                                             *)
(***************************************************************************)
\* points[idx] = (int(landmark.x * image_width), int(landmark.y * image_height))
PixelPoints(landmarks, image_width, image_height) ==
    [idx \in 0..(Len(landmarks.landmark) - 1) |->
        <<IntOfProduct(landmarks.landmark[idx + 1].x, image_width),
          IntOfProduct(landmarks.landmark[idx + 1].y, image_height)>>]

\* the seven pairwise distances, each guarded by `a in points and b in points`
PairMeasurements(points) ==
    LET Pair(m, key, a, b) ==
            IF a \in DOMAIN points /\ b \in DOMAIN points
            THEN Put(m, key, calculate_distance(points[a], points[b]))
            ELSE m
        m1 == Pair(<<>>, "shoulder_width", LEFT_SHOULDER, RIGHT_SHOULDER)
        m2 == Pair(m1, "hip_width", LEFT_HIP, RIGHT_HIP)
        m3 == Pair(m2, "left_arm_length", LEFT_SHOULDER, LEFT_WRIST)
        m4 == Pair(m3, "right_arm_length", RIGHT_SHOULDER, RIGHT_WRIST)
        m5 == Pair(m4, "left_leg_length", LEFT_HIP, LEFT_ANKLE)
        m6 == Pair(m5, "right_leg_length", RIGHT_HIP, RIGHT_ANKLE)
    IN  Pair(m6, "torso_length", LEFT_SHOULDER, LEFT_HIP)

\* a variant in which the division raises ZeroDivisionError on a zero divisor
\* (plain Python floats): the except clause swallows it and every later
\* statement of the try block is skipped
calculate_body_measurements_raising(landmarks, image_width, image_height) ==
    IF IsNone(landmarks) THEN <<>>
    ELSE
      LET m7 == PairMeasurements(PixelPoints(Get(landmarks), image_width, image_height))
          armBoth == "left_arm_length" \in DOMAIN m7 /\ "right_arm_length" \in DOMAIN m7
          legBoth == "left_leg_length" \in DOMAIN m7 /\ "right_leg_length" \in DOMAIN m7
          armRaises == armBoth /\ Radicand(m7["right_arm_length"]) = 0
          legRaises == legBoth /\ Radicand(m7["right_leg_length"]) = 0
          m8 == IF armBoth /\ ~armRaises
                THEN Put(m7, "arm_symmetry_ratio",
                         np_divide(m7["left_arm_length"], m7["right_arm_length"]))
                ELSE m7
      IN  IF armRaises THEN m7
          ELSE IF legBoth /\ ~legRaises
               THEN Put(m8, "leg_symmetry_ratio",
                        np_divide(m8["left_leg_length"], m8["right_leg_length"]))
               ELSE m8

\* The try block cannot raise on the values modelled here: every distance is
\* an np.float64, whose division by zero yields inf or nan with a warning.
calculate_body_measurements(landmarks, image_width, image_height) ==
    IF IsNone(landmarks) THEN <<>>
    ELSE
      LET m7 == PairMeasurements(PixelPoints(Get(landmarks), image_width, image_height))
          m8 == IF "left_arm_length" \in DOMAIN m7 /\ "right_arm_length" \in DOMAIN m7
                THEN Put(m7, "arm_symmetry_ratio",
                         np_divide(m7["left_arm_length"], m7["right_arm_length"]))
                ELSE m7
      IN  IF "left_leg_length" \in DOMAIN m8 /\ "right_leg_length" \in DOMAIN m8
          THEN Put(m8, "leg_symmetry_ratio",
                   np_divide(m8["left_leg_length"], m8["right_leg_length"]))
          ELSE m8

(***************************************************************************)
(* extract_keypoints                                                       *)
(***************************************************************************)
\* a variant numbering the keypoints from 1
extract_keypoints_onebased(landmarks) ==
    IF IsNone(landmarks) THEN <<>>
    ELSE [i \in 1..Len(Get(landmarks).landmark) |->
            [x |-> Get(landmarks).landmark[i].x,
             y |-> Get(landmarks).landmark[i].y,
             z |-> Get(landmarks).landmark[i].z,
             visibility |-> Get(landmarks).landmark[i].visibility,
             landmark_id |-> i]]

extract_keypoints(landmarks) ==
    IF IsNone(landmarks) THEN <<>>
    ELSE [i \in 1..Len(Get(landmarks).landmark) |->
            [x |-> Get(landmarks).landmark[i].x,
             y |-> Get(landmarks).landmark[i].y,
             z |-> Get(landmarks).landmark[i].z,
             visibility |-> Get(landmarks).landmark[i].visibility,
             landmark_id |-> i - 1]]

(***************************************************************************)
(* The outside world: image files, base64 payloads, the URL, the pose      *)
(* model.                                                                  *)
(***************************************************************************)
\* what PIL makes of a byte string; any other byte string is not an image
ImageFiles ==
    [b \in {"imgA", "imgB"} |->
        CASE b = "imgA" -> [name |-> "imgA", width |-> 8, height |-> 8]
          [] b = "imgB" -> [name |-> "imgB", width |-> 8, height |-> 4]]

\* Image.open(io.BytesIO(b)); cv2.cvtColor(np.array(image), cv2.COLOR_RGB2BGR):
\* the image, or the text of the exception raised
DecodeImage(b) ==
    IF b \in DOMAIN ImageFiles
    THEN [ok |-> TRUE, image |-> ImageFiles[b]]
    ELSE [ok |-> FALSE, err |-> "cannot identify image file"]

\* the base64 strings of the byte strings imgA, imgB and junk
Base64Table ==
    [s \in {"aW1nQQ==", "aW1nQg==", "anVuaw=="} |->
        CASE s = "aW1nQQ==" -> "imgA"
          [] s = "aW1nQg==" -> "imgB"
          [] s = "anVuaw==" -> "junk"]

\* base64.b64decode(s)
b64decode(s) ==
    IF s \in DOMAIN Base64Table
    THEN [ok |-> TRUE, bytes |-> Base64Table[s]]
    ELSE [ok |-> FALSE, err |-> "Invalid base64-encoded string"]

\* the landmark positions the pose model may report, as fractions of the
\* image size, with their visibility
P1 == [x |-> Rat(1, 4), y |-> Rat(1, 4), z |-> Rat(0, 1), visibility |-> Rat(1, 1)]
P2 == [x |-> Rat(3, 4), y |-> Rat(1, 2), z |-> Rat(0, 1), visibility |-> Rat(3, 4)]
P3 == [x |-> Rat(-1, 8), y |-> Rat(3, 8), z |-> Rat(-1, 2), visibility |-> Rat(1, 2)]

JointIdx == {LEFT_SHOULDER, RIGHT_SHOULDER, LEFT_HIP, RIGHT_HIP}
ExtremityIdx == {LEFT_WRIST, RIGHT_WRIST, LEFT_ANKLE, RIGHT_ANKLE}

\* a landmark list of n landmarks: the shoulders and hips where joints puts
\* them, the wrists and ankles where extremities puts them, the rest at P1
Landmarks(n, joints, extremities) ==
    [landmark |->
        [i \in 1..n |->
            IF (i - 1) \in JointIdx THEN joints[i - 1]
            ELSE IF (i - 1) \in ExtremityIdx THEN extremities[i - 1]
            ELSE P1]]

JointChoices == [JointIdx -> {P1, P2}]
ExtremityChoices == [ExtremityIdx -> {P1, P2, P3}]

\* results.pose_landmarks of a few poses: a symmetric one, one whose right
\* wrist lies on the right shoulder, and a truncated one
SymmetricPose ==
    Landmarks(MaxLandmarks, [i \in JointIdx |-> P1], [i \in ExtremityIdx |-> P2])
CollapsedPose ==
    Landmarks(MaxLandmarks, [i \in JointIdx |-> P2],
              [i \in ExtremityIdx |-> IF i = RIGHT_WRIST THEN P2 ELSE P3])
ShortPose ==
    Landmarks(RIGHT_WRIST, [i \in JointIdx |-> P1], [i \in ExtremityIdx |-> P3])

FaultTexts == {"Graph has errors", "out of memory"}

\* pose.process(image): landmarks, no landmarks, or an exception
PoseOutcomes ==
    {[kind |-> "landmarks", pose_landmarks |-> Some(l)] :
        l \in {SymmetricPose, CollapsedPose, ShortPose}}
    \cup {[kind |-> "landmarks", pose_landmarks |-> None]}
    \cup {[kind |-> "raise", msg |-> m] : m \in FaultTexts}

\* requests.get(url, timeout=10) followed by raise_for_status()
HttpOutcomes ==
    {[kind |-> "ok", content |-> b] : b \in {"imgB", "junk"}}
    \cup {[kind |-> "raise", msg |-> "404 Client Error"]}

NoWorld == [http |-> [kind |-> "unused"], pose |-> [kind |-> "unused"]]

(***************************************************************************)
(* Responses                                                               *)
(***************************************************************************)
\* raise HTTPException(status_code, detail)
HTTPException(status_code, detail) ==
    [status |-> status_code, body |-> [detail |-> detail]]

\* a value returned by a handler
Ok(body) == [status |-> 200, body |-> body]

AnalysisResult(photo_id, success, analysis, error) ==
    [photo_id |-> photo_id, success |-> success, analysis |-> analysis, error |-> error]

(***************************************************************************)
(* POST /analyze-photo                                                     *)
(***************************************************************************)
\* the image_url branch: fetch, decode; any exception becomes a 400
LoadFromUrl(w) ==
    IF w.http.kind = "raise"
    THEN [ok |-> FALSE,
          exc |-> HTTPException(400, "Failed to fetch image from URL: " \o w.http.msg)]
    ELSE LET d == DecodeImage(w.http.content)
         IN  IF d.ok THEN [ok |-> TRUE, image |-> d.image, from |-> "image_url"]
             ELSE [ok |-> FALSE,
                   exc |-> HTTPException(400, "Failed to fetch image from URL: " \o d.err)]

\* the image_data branch: base64-decode, decode; any exception becomes a 400
LoadFromData(image_data) ==
    LET b == b64decode(image_data)
        d == DecodeImage(b.bytes)
    IN  IF ~b.ok
        THEN [ok |-> FALSE, exc |-> HTTPException(400, "Invalid image data: " \o b.err)]
        ELSE IF ~d.ok
        THEN [ok |-> FALSE, exc |-> HTTPException(400, "Invalid image data: " \o d.err)]
        ELSE [ok |-> TRUE, image |-> d.image, from |-> "image_data"]

\* a variant that looks at image_data before image_url
LoadImage_data_first(request, w) ==
    IF Truthy(request.image_data) THEN LoadFromData(Get(request.image_data))
    ELSE IF Truthy(request.image_url) THEN LoadFromUrl(w)
    ELSE [ok |-> FALSE, exc |-> HTTPException(400, "No image data or URL provided")]

\* if request.image_url: ... elif request.image_data: ... else: raise
LoadImage(request, w) ==
    IF Truthy(request.image_url) THEN LoadFromUrl(w)
    ELSE IF Truthy(request.image_data) THEN LoadFromData(Get(request.image_data))
    ELSE [ok |-> FALSE, exc |-> HTTPException(400, "No image data or URL provided")]

\* the dictionary analysis_data
AnalysisData(image, pose_landmarks, view) ==
    LET keypoints == extract_keypoints(pose_landmarks)
    IN  [measurements |-> calculate_body_measurements(pose_landmarks, image.width, image.height),
         keypoints |-> keypoints,
         confidence |-> np_mean([i \in 1..Len(keypoints) |-> keypoints[i].visibility]),
         view |-> view,
         image_dimensions |-> [width |-> image.width, height |-> image.height],
         landmarks_detected |-> Len(keypoints)]

\* the result returned when results.pose_landmarks is empty
NoPoseResult(request) ==
    Ok(AnalysisResult(request.photo_id, FALSE, None,
        Some("No pose detected in image. Please ensure the person is clearly visible.")))

\* a variant that reports the error text next to the analysis
SuccessResult_with_error(request, analysis_data) ==
    Ok(AnalysisResult(request.photo_id, TRUE, Some(analysis_data), Some("")))

\* the result returned after a successful analysis
SuccessResult(request, analysis_data) ==
    Ok(AnalysisResult(request.photo_id, TRUE, Some(analysis_data), None))

\* the handler's `except Exception as e` clause
FaultResult(request, msg) ==
    Ok(AnalysisResult(request.photo_id, FALSE, None, Some("Analysis failed: " \o msg)))

\* the handler: its response and the images it handed to pose.process
analyze_photo(request, w) ==
    LET loaded == LoadImage(request, w)
    IN  IF ~loaded.ok
        THEN [response |-> loaded.exc, pose_inputs |-> <<>>]
        ELSE IF w.pose.kind = "raise"
        THEN [response |-> FaultResult(request, w.pose.msg),
              pose_inputs |-> <<loaded.image>>]
        ELSE IF IsNone(w.pose.pose_landmarks)
        THEN [response |-> NoPoseResult(request), pose_inputs |-> <<loaded.image>>]
        ELSE [response |-> SuccessResult(request,
                              AnalysisData(loaded.image, w.pose.pose_landmarks, request.view)),
              pose_inputs |-> <<loaded.image>>]

(***************************************************************************)
(* POST /analyze-photo-file                                                *)
(***************************************************************************)
\* the handler's `except Exception as e` clause
FileFault(msg) == HTTPException(500, "Analysis failed: " \o msg)

\* a variant that answers a missing pose with a server error
FileNoPoseResult_as_error == HTTPException(500, "No pose detected in image")

\* the result returned when results.pose_landmarks is empty
FileNoPoseResult == Ok([success |-> FALSE, error |-> "No pose detected in image"])

\* the result returned after a successful analysis
FileSuccessResult(image, pose_landmarks, view) ==
    LET keypoints == extract_keypoints(pose_landmarks)
    IN  Ok([success |-> TRUE,
            analysis |->
              [measurements |-> calculate_body_measurements(pose_landmarks, image.width, image.height),
               keypoints |-> keypoints,
               confidence |-> np_mean([i \in 1..Len(keypoints) |-> keypoints[i].visibility]),
               view |-> view,
               image_dimensions |-> [width |-> image.width, height |-> image.height]]])

\* the handler: its response and the images it handed to pose.process.
\* file.content_type is None when the part carries no Content-Type header,
\* and None has no startswith: the AttributeError reaches the except clause.
analyze_photo_file(file, view, w) ==
    LET d == DecodeImage(file.content)
    IN  IF IsNone(file.content_type)
        THEN [response |-> FileFault("'NoneType' object has no attribute 'startswith'"),
              pose_inputs |-> <<>>]
        ELSE IF ~startswith(Get(file.content_type), "image/")
        THEN [response |-> HTTPException(400, "File must be an image"), pose_inputs |-> <<>>]
        ELSE IF ~d.ok
        THEN [response |-> FileFault(d.err), pose_inputs |-> <<>>]
        ELSE IF w.pose.kind = "raise"
        THEN [response |-> FileFault(w.pose.msg), pose_inputs |-> <<d.image>>]
        ELSE IF IsNone(w.pose.pose_landmarks)
        THEN [response |-> FileNoPoseResult, pose_inputs |-> <<d.image>>]
        ELSE [response |-> FileSuccessResult(d.image, w.pose.pose_landmarks, view),
              pose_inputs |-> <<d.image>>]

(***************************************************************************)
(* The static endpoints                                                    *)
(***************************************************************************)
root == Ok([message |-> "GymSage Photo Analyzer API", status |-> "healthy", version |-> "1.0.0"])

health_check ==
    Ok([status |-> "healthy", service |-> "photo-analyzer",
        mediapipe_available |-> TRUE, opencv_available |-> TRUE])

get_measurements_guide ==
    Ok([measurements |->
          [shoulder_width |-> "Distance between left and right shoulders",
           hip_width |-> "Distance between left and right hips",
           left_arm_length |-> "Distance from left shoulder to left wrist",
           right_arm_length |-> "Distance from right shoulder to right wrist",
           left_leg_length |-> "Distance from left hip to left ankle",
           right_leg_length |-> "Distance from right hip to right ankle",
           torso_length |-> "Distance from shoulder to hip",
           arm_symmetry_ratio |-> "Ratio of left to right arm length (1.0 = perfect symmetry)",
           leg_symmetry_ratio |-> "Ratio of left to right leg length (1.0 = perfect symmetry)"],
        notes |->
          <<"All measurements are in pixels and relative to image dimensions",
            "For accurate real-world measurements, camera calibration is required",
            "Symmetry ratios close to 1.0 indicate good bilateral symmetry",
            "Measurements are most accurate with front-facing photos">>])

(***************************************************************************)
(* The state machine: one action per operation                             *)
(***************************************************************************)
PhotoIds == {"test-123", "photo-7"}
Views == {"front", "side"}
ImageDataInputs == {None, Some(""), Some("aW1nQQ=="), Some("anVuaw=="),
                    Some("invalid-base64-data")}
ImageUrlInputs == {None, Some(""), Some("http://cdn.example/b.png")}
ContentTypes == {None, Some(""), Some("text/plain"), Some("image/png"), Some("image/jpeg")}
FileContents == {"imgA", "imgB", "not an image"}
Grid == (-1)..GridMax

Init ==
    /\ op = "start"
    /\ input = <<>>
    /\ world = NoWorld
    /\ output = <<>>
    /\ poseLog = <<>>

AnalyzePhoto ==
    /\ op = "start"
    /\ \E photo_id \in PhotoIds, view \in Views, image_data \in ImageDataInputs,
       image_url \in ImageUrlInputs, http \in HttpOutcomes, pose \in PoseOutcomes :
        LET request == [photo_id |-> photo_id, view |-> view,
                        image_data |-> image_data, image_url |-> image_url]
            w == [http |-> http, pose |-> pose]
            r == analyze_photo(request, w)
        IN  /\ op' = "analyze_photo"
            /\ input' = request
            /\ world' = w
            /\ output' = r.response
            /\ poseLog' = r.pose_inputs

AnalyzePhotoFile ==
    /\ op = "start"
    /\ \E content_type \in ContentTypes, content \in FileContents, view \in Views,
       pose \in PoseOutcomes :
        LET file == [content_type |-> content_type, content |-> content]
            w == [http |-> [kind |-> "unused"], pose |-> pose]
            r == analyze_photo_file(file, view, w)
        IN  /\ op' = "analyze_photo_file"
            /\ input' = [file |-> file, view |-> view]
            /\ world' = w
            /\ output' = r.response
            /\ poseLog' = r.pose_inputs

GetMeasurementsGuide ==
    /\ op = "start"
    /\ op' = "get_measurements_guide"
    /\ input' = <<>>
    /\ world' = NoWorld
    /\ output' = get_measurements_guide
    /\ poseLog' = <<>>

HealthCheck ==
    /\ op = "start"
    /\ op' = "health_check"
    /\ input' = <<>>
    /\ world' = NoWorld
    /\ output' = health_check
    /\ poseLog' = <<>>

Root ==
    /\ op = "start"
    /\ op' = "root"
    /\ input' = <<>>
    /\ world' = NoWorld
    /\ output' = root
    /\ poseLog' = <<>>

CallCalculateDistance ==
    /\ op = "start"
    /\ \E x1 \in Grid, y1 \in Grid, x2 \in Grid, y2 \in Grid :
        /\ op' = "calculate_distance"
        /\ input' = [point1 |-> <<x1, y1>>, point2 |-> <<x2, y2>>]
        /\ world' = NoWorld
        /\ output' = calculate_distance(<<x1, y1>>, <<x2, y2>>)
        /\ poseLog' = <<>>

\* the landmark arguments of the direct calls: None, or a list of up to
\* MaxLandmarks landmarks
CallCalculateBodyMeasurements ==
    /\ op = "start"
    /\ \E landmarks \in {None} \cup
           {Some(Landmarks(n, j, e)) : n \in 0..MaxLandmarks, j \in JointChoices,
                                       e \in ExtremityChoices} :
        /\ op' = "calculate_body_measurements"
        /\ input' = [landmarks |-> landmarks, image_width |-> 8, image_height |-> 8]
        /\ world' = NoWorld
        /\ output' = calculate_body_measurements(landmarks, 8, 8)
        /\ poseLog' = <<>>

CallExtractKeypoints ==
    /\ op = "start"
    /\ \E landmarks \in {None} \cup
           {Some(Landmarks(n, [i \in JointIdx |-> p], [i \in ExtremityIdx |-> q])) :
               n \in 0..MaxLandmarks, p \in {P1, P2}, q \in {P1, P2, P3}} :
        /\ op' = "extract_keypoints"
        /\ input' = [landmarks |-> landmarks]
        /\ world' = NoWorld
        /\ output' = extract_keypoints(landmarks)
        /\ poseLog' = <<>>

\* the call has returned and the service, which keeps nothing of it, waits
\* for the next one
Finish ==
    /\ op # "start"
    /\ op' = "start"
    /\ input' = <<>>
    /\ world' = NoWorld
    /\ output' = <<>>
    /\ poseLog' = <<>>

Next ==
    \/ AnalyzePhoto
    \/ AnalyzePhotoFile
    \/ GetMeasurementsGuide
    \/ HealthCheck
    \/ Root
    \/ CallCalculateDistance
    \/ CallCalculateBodyMeasurements
    \/ CallExtractKeypoints
    \/ Finish

Spec == Init /\ [][Next]_vars

(***************************************************************************)
(* Properties                                                              *)
(***************************************************************************)
\* an image input counts as supplied when it is neither None nor empty
BothSupplied == Truthy(input.image_data) /\ Truthy(input.image_url)
NeitherSupplied == ~Truthy(input.image_data) /\ ~Truthy(input.image_url)

\* C1 as stated: when both image_data and image_url are supplied the image
\* analysed is the one decoded from image_data and the URL is not used (the
\* call behaves as the same request without image_url); a request with
\* neither is answered 400.
C1_DataTakesPriority ==
    op = "analyze_photo" =>
        /\ BothSupplied =>
            /\ output = analyze_photo([input EXCEPT !.image_url = None], world).response
            /\ poseLog = analyze_photo([input EXCEPT !.image_url = None], world).pose_inputs
        /\ NeitherSupplied => output.status = 400

\* C1 amended: when both image_data and image_url are supplied the image
\* analysed is the one the URL serves and image_data is not used (the call
\* behaves as the same request without image_data, a failed fetch included);
\* a request with neither is answered 400.
C1_UrlTakesPriority ==
    op = "analyze_photo" =>
        /\ BothSupplied =>
            /\ output = analyze_photo([input EXCEPT !.image_data = None], world).response
            /\ poseLog = analyze_photo([input EXCEPT !.image_data = None], world).pose_inputs
            /\ \A i \in 1..Len(poseLog) :
                  /\ world.http.kind = "ok"
                  /\ poseLog[i] = ImageFiles[world.http.content]
            /\ world.http.kind = "raise" => output.status = 400
        /\ NeitherSupplied => output.status = 400

\* both inputs supplied, image_data a valid picture (imgA), and the picture
\* handed to the pose model is the one the URL served (imgB)
C1_Witness ==
    /\ op = "analyze_photo"
    /\ BothSupplied
    /\ LoadFromData(Get(input.image_data)).ok
    /\ LoadFromData(Get(input.image_data)).image.name = "imgA"
    /\ poseLog = <<ImageFiles["imgB"]>>
    /\ output.status = 200

\* C2 as stated: a request with neither image_data nor image_url is answered
\* 400 with a detail containing "No image data provided".
C2_MissingImageMessage ==
    (op = "analyze_photo" /\ NeitherSupplied) =>
        /\ output.status = 400
        /\ Contains(output.body.detail, "No image data provided")

\* C3 as stated: when the pose model raises, the response is a failure whose
\* text does not depend on the exception's message: the same request failing
\* with any other exception text gets the same response.
C3_FaultTextIndependent ==
    (op = "analyze_photo" /\ poseLog # <<>> /\ world.pose.kind = "raise") =>
        /\ output.status = 200
        /\ output.body.success = FALSE
        /\ \A m \in FaultTexts :
              analyze_photo(input, [world EXCEPT !.pose.msg = m]).response = output

\* C4 as stated: a request whose image cannot be obtained or decoded is
\* answered with a 4xx status and a message on both endpoints, and an
\* undecodable image_data with 400 "Invalid image data...".  (On the file
\* endpoint the uploads with a content type are the ones considered; the
\* upload without one is C5's.)
C4_MalformedInputIs4xx ==
    /\ (op = "analyze_photo" /\ ~NeitherSupplied /\ ~LoadImage(input, world).ok) =>
          /\ output.status \in 400..499
          /\ output.body.detail # ""
    /\ (op = "analyze_photo" /\ ~Truthy(input.image_url) /\ Truthy(input.image_data)
            /\ ~LoadFromData(Get(input.image_data)).ok) =>
          /\ output.status = 400
          /\ Contains(output.body.detail, "Invalid image data")
    /\ (op = "analyze_photo_file" /\ ~IsNone(input.file.content_type)
            /\ ~DecodeImage(input.file.content).ok) =>
          /\ output.status \in 400..499
          /\ output.body.detail # ""

\* C5 as stated: an upload whose content type does not start with "image/",
\* or that has none, is answered 400 "File must be an image" and the pose
\* model is not invoked.
C5_NonImageRejected ==
    (op = "analyze_photo_file"
        /\ (IsNone(input.file.content_type)
            \/ ~startswith(Get(input.file.content_type), "image/"))) =>
        /\ output.status = 400
        /\ output.body.detail = "File must be an image"
        /\ poseLog = <<>>

IsQuotient(r, a, b) ==
    IF Radicand(b) = 0
    THEN r.kind = (IF Radicand(a) = 0 THEN "nan" ELSE "inf")
    ELSE /\ r.kind = "sqrt_ratio"
         /\ r.den > 0
         /\ r.num * Radicand(b) = r.den * Radicand(a)

\* C7: the measurements hold arm_symmetry_ratio exactly when they hold both
\* arm lengths, leg_symmetry_ratio exactly when they hold both leg lengths,
\* and a ratio that is present is left divided by right.
C7_SymmetryRatioIff ==
    op = "calculate_body_measurements" =>
        /\ ("arm_symmetry_ratio" \in DOMAIN output) <=>
              ("left_arm_length" \in DOMAIN output /\ "right_arm_length" \in DOMAIN output)
        /\ ("leg_symmetry_ratio" \in DOMAIN output) <=>
              ("left_leg_length" \in DOMAIN output /\ "right_leg_length" \in DOMAIN output)
        /\ "arm_symmetry_ratio" \in DOMAIN output =>
              IsQuotient(output["arm_symmetry_ratio"], output["left_arm_length"],
                         output["right_arm_length"])
        /\ "leg_symmetry_ratio" \in DOMAIN output =>
              IsQuotient(output["leg_symmetry_ratio"], output["left_leg_length"],
                         output["right_leg_length"])

\* fewer landmarks than the full set, a right arm of length 0 with a left arm
\* of positive length, the arm ratio present and no leg measurement
C7_Witness ==
    /\ op = "calculate_body_measurements"
    /\ ~IsNone(input.landmarks)
    /\ Len(Get(input.landmarks).landmark) < MaxLandmarks
    /\ "right_arm_length" \in DOMAIN output
    /\ Radicand(output["right_arm_length"]) = 0
    /\ "left_arm_length" \in DOMAIN output
    /\ Radicand(output["left_arm_length"]) > 0
    /\ "arm_symmetry_ratio" \in DOMAIN output
    /\ "left_leg_length" \notin DOMAIN output
    /\ "leg_symmetry_ratio" \notin DOMAIN output

\* C8: calculate_distance(p, q) is the Euclidean norm of p - q: its square is
\* (p.x-q.x)^2 + (p.y-q.y)^2, it is 0 exactly when p = q, it is symmetric,
\* and it is exactly 5 for (0,0) and (3,4).
C8_EuclideanDistance ==
    op = "calculate_distance" =>
        LET p == input.point1
            q == input.point2
        IN  /\ output.floor >= 0 /\ output.rem >= 0
            /\ output.rem <= 2 * output.floor
            /\ Radicand(output) = (p[1] - q[1]) * (p[1] - q[1]) + (p[2] - q[2]) * (p[2] - q[2])
            /\ (output.floor = 0 /\ output.rem = 0) <=> (p = q)
            /\ calculate_distance(q, p) = output
            /\ (p = <<0, 0>> /\ q = <<3, 4>>) => (output.floor = 5 /\ output.rem = 0)

\* the 3-4-5 triangle
C8_Witness ==
    /\ op = "calculate_distance"
    /\ input.point1 = <<0, 0>>
    /\ input.point2 = <<3, 4>>
    /\ output.floor = 5

\* C9: with no landmarks (None, or an empty list) calculate_body_measurements
\* returns an empty mapping and extract_keypoints an empty list; otherwise
\* extract_keypoints returns one entry per landmark, in order, with
\* landmark_id the landmark's index from 0.
C9_EmptyAndKeypoints ==
    /\ (op = "calculate_body_measurements"
            /\ (IsNone(input.landmarks) \/ Get(input.landmarks).landmark = <<>>)) =>
          output = <<>>
    /\ op = "extract_keypoints" =>
          IF IsNone(input.landmarks)
          THEN output = <<>>
          ELSE LET ls == Get(input.landmarks).landmark
               IN  /\ DOMAIN output = 1..Len(ls)
                   /\ \A i \in 1..Len(ls) :
                         /\ output[i].landmark_id = i - 1
                         /\ output[i].x = ls[i].x
                         /\ output[i].y = ls[i].y
                         /\ output[i].z = ls[i].z
                         /\ output[i].visibility = ls[i].visibility

\* a full landmark list whose landmarks are not all alike
C9_Witness ==
    /\ op = "extract_keypoints"
    /\ ~IsNone(input.landmarks)
    /\ Len(output) = MaxLandmarks
    /\ output[LEFT_SHOULDER + 1].x # output[LEFT_WRIST + 1].x
    /\ output[Len(output)].landmark_id = MaxLandmarks - 1

\* the metric names listed by GET /measurements/guide
GuideVocabulary == DOMAIN get_measurements_guide.body.measurements

\* C10: a 200 response of POST /analyze-photo echoes photo_id and carries
\* exactly one of analysis and error, analysis with success = true and error
\* with success = false; the keys of analysis.measurements are among the
\* nine metric names of the guide.
C10_ResultShape ==
    (op = "analyze_photo" /\ output.status = 200) =>
        /\ output.body.photo_id = input.photo_id
        /\ output.body.success =>
              (~IsNone(output.body.analysis) /\ IsNone(output.body.error))
        /\ ~output.body.success =>
              (IsNone(output.body.analysis) /\ ~IsNone(output.body.error))
        /\ ~IsNone(output.body.analysis) =>
              DOMAIN Get(output.body.analysis).measurements \subseteq GuideVocabulary
        /\ Cardinality(GuideVocabulary) = 9

\* a successful analysis that reports all nine metrics
C10_Witness ==
    /\ op = "analyze_photo"
    /\ output.status = 200
    /\ output.body.success
    /\ DOMAIN Get(output.body.analysis).measurements = GuideVocabulary

====
